---- MODULE Spec2Model ----
(***************************************************************************)
(* Model of the KadenaApp host driver (src/src/app.ts): the signing        *)
(* operations sign, signHash, signTransferTx, signTransferCreateTx and     *)
(* signTransferCrossChainTx, the parameter validator, the payload          *)
(* assembler, the chunk dispatch loop and the command-document builder.    *)
(*                                                                         *)
(* Representation.  A JavaScript string is a sequence of UTF-16 code units *)
(* (all characters used are in the Basic Multilingual Plane, so one code   *)
(* unit is one character); a Buffer is a sequence of bytes 0..255.  A      *)
(* JavaScript value is a tagged record: Undefined, Str(s) or Num(n), where *)
(* numbers are integers.                                                   *)
(***************************************************************************)
EXTENDS Integers, Sequences, FiniteSets, TLC

VARIABLES
    pc,                \* where the signing call is: idle, awaitChunk, awaitAddr, done, failed
    op,                \* the operation called
    path,              \* its path argument
    params,            \* the caller's intent record (the object the call was given)
    params0,           \* that record as it was when the call was made
    txType,            \* signTxInternal's txType
    fields,            \* signTxInternal's normalized locals
    creationTime,      \* signTxInternal's creationTime
    payload,           \* the blob given to prepareChunks
    chunks,            \* prepareChunks' result
    sent,              \* the signSendChunk calls made, in order
    answered,          \* how many of them have been answered
    failedAt,          \* the index of the chunk whose dispatch failed, or 0
    signatureResponse, \* the latest chunk response
    addrSent,          \* the GET_ADDR requests made, in order
    addrFailed,        \* whether the GET_ADDR request failed
    result,            \* what the call returned
    error              \* what the call threw

vars == <<pc, op, path, params, params0, txType, fields, creationTime, payload, chunks,
          sent, answered, failedAt, signatureResponse, addrSent, addrFailed, result,
          error>>

(***************************************************************************)
(* Bounds of the model.                                                    *)
(***************************************************************************)
\* sign() is called with blobs of 0 .. MaxBlobChunks full chunks (+ a tail).
MaxBlobChunks == 2
\* recipients are tried with 64 - LenSlack .. 64 + LenSlack characters, and
\* every other field up to LenSlack characters over its budget.
LenSlack == 1

(***************************************************************************)
(* JavaScript values and strings.                                          *)
(***************************************************************************)
Undefined == [t |-> "undefined"]
Str(s) == [t |-> "string", s |-> s]
Num(n) == [t |-> "number", n |-> n]

Rep(c, n) == [i \in 1..n |-> c]

IsDigit(c) == c \in 48..57
\* the character class [0-9A-Fa-f]
IsHex(c) == c \in (48..57) \cup (65..70) \cup (97..102)

RECURSIVE NatToStr(_)
NatToStr(n) == IF n < 10 THEN <<48 + n>>
               ELSE NatToStr(n \div 10) \o <<48 + (n % 10)>>

\* Number.prototype.toString for an integer number
IntToStr(n) == IF n < 0 THEN <<45>> \o NatToStr(-n) ELSE NatToStr(n)

RECURSIVE StrToNat(_)
StrToNat(s) == IF s = <<>> THEN 0
               ELSE 10 * StrToNat(SubSeq(s, 1, Len(s) - 1)) + (s[Len(s)] - 48)

\* value.toString(), and the conversion string concatenation applies
\* ("" + undefined is "undefined")
ToStr(v) == CASE v.t = "string" -> v.s
              [] v.t = "number" -> IntToStr(v.n)
              [] OTHER -> <<117, 110, 100, 101, 102, 105, 110, 101, 100>>

\* JavaScript truthiness: undefined, "" and 0 are falsy
Truthy(v) == CASE v.t = "string" -> v.s # <<>>
               [] v.t = "number" -> v.n # 0
               [] OTHER -> FALSE

IsDigits(s) == Len(s) > 0 /\ \A i \in 1..Len(s) : IsDigit(s[i])

\* index of the first element of s in set cs, 0 when there is none
FirstIdx(s, cs) ==
    IF \E i \in 1..Len(s) : s[i] \in cs
    THEN CHOOSE i \in 1..Len(s) : s[i] \in cs /\ \A j \in 1..(i - 1) : s[j] \notin cs
    ELSE 0

StripSign(s) == IF Len(s) > 0 /\ s[1] \in {43, 45} THEN Tail(s) ELSE s

\* mantissa and exponent part of an unsigned decimal literal (split at e/E)
Mantissa(u) == IF FirstIdx(u, {101, 69}) = 0 THEN u
               ELSE SubSeq(u, 1, FirstIdx(u, {101, 69}) - 1)
HasExponent(u) == FirstIdx(u, {101, 69}) # 0
Exponent(u) == SubSeq(u, FirstIdx(u, {101, 69}) + 1, Len(u))

IsMantissa(m) ==
    LET d == FirstIdx(m, {46}) IN
    IF d = 0 THEN IsDigits(m)
    ELSE LET ip == SubSeq(m, 1, d - 1)
             fp == SubSeq(m, d + 1, Len(m))
         IN \/ IsDigits(ip) /\ (fp = <<>> \/ IsDigits(fp))
            \/ ip = <<>> /\ IsDigits(fp)

Infinity == <<73, 110, 102, 105, 110, 105, 116, 121>>

\* Number(s) is not NaN, for a string s: the StringNumericLiteral grammar
\* (the empty string is 0; white space and 0x/0o/0b literals are not part
\* of the modelled alphabet).
IsNumericString(s) ==
    \/ s = <<>>
    \/ LET u == StripSign(s) IN
       \/ u = Infinity
       \/ /\ IsMantissa(Mantissa(u))
          /\ HasExponent(u) => IsDigits(StripSign(Exponent(u)))

\* the global isNaN(v): v converted with Number(v)
JsIsNaN(v) == CASE v.t = "string" -> ~IsNumericString(v.s)
                [] v.t = "number" -> FALSE
                [] OTHER -> TRUE

TrailingZeros(m) ==
    IF \A i \in 1..Len(m) : m[i] = 48 THEN Len(m)
    ELSE Len(m) - (CHOOSE i \in 1..Len(m) :
                      m[i] # 48 /\ \A j \in (i + 1)..Len(m) : m[j] = 48)

\* Number.isInteger(Number(s)) for a string s without "." (exact while the
\* value neither overflows nor underflows a double)
IsIntegerString(s) ==
    /\ IsNumericString(s)
    /\ StripSign(s) # Infinity
    /\ LET u == StripSign(s)
           m == Mantissa(u)
       IN \/ ~HasExponent(u)
          \/ Exponent(u)[1] # 45
          \/ (\A i \in 1..Len(m) : m[i] = 48)
          \/ TrailingZeros(m) >= StrToNat(Tail(Exponent(u)))

\* String.prototype.startsWith("k:")
StartsWithK(s) == Len(s) >= 2 /\ s[1] = 107 /\ s[2] = 58

\* params.recipient.startsWith("k:") ? params.recipient.substring(2) : ...
StripPrefix(s) == IF StartsWithK(s) THEN SubSeq(s, 3, Len(s)) ELSE s

(***************************************************************************)
(* Program constants.                                                      *)
(***************************************************************************)
\* KadenaApp._params.chunkSize
chunkSize == 250

\* KadenaApp._INS
INS == [GET_VERSION |-> 32, GET_ADDR |-> 33, SIGN |-> 34, SIGN_HASH |-> 35,
        SIGN_TRANSFER_TX |-> 36]

\* enum TransferTxType
TransferTxType == [TRANSFER |-> 0, TRANSFER_CREATE |-> 1, TRANSFER_CROSS_CHAIN |-> 2]

\* Object.entries(maxLengths), in insertion order
maxLengths == << <<"recipient", 64>>, <<"namespace", 16>>, <<"module", 32>>,
                 <<"recipient_chainId", 2>>, <<"network", 20>>, <<"amount", 32>>,
                 <<"gasPrice", 20>>, <<"gasLimit", 10>>, <<"creationTime", 12>>,
                 <<"chainId", 2>>, <<"nonce", 32>>, <<"ttl", 20>> >>

(***************************************************************************)
(* Field Encoder and amount normalization.                                 *)
(***************************************************************************)
\* the UTF-8 encoding of one BMP code unit
Utf8(c) == IF c < 128 THEN <<c>>
           ELSE IF c < 2048 THEN <<192 + (c \div 64), 128 + (c % 64)>>
           ELSE <<224 + (c \div 4096), 128 + ((c \div 64) % 64), 128 + (c % 64)>>

\* Buffer.write(txt, offset, "utf-8") into a buffer with `room` bytes left:
\* whole characters are written while they fit, the rest is dropped
RECURSIVE BufferWrite(_, _)
BufferWrite(txt, room) ==
    IF txt = <<>> \/ Len(Utf8(Head(txt))) > room THEN <<>>
    ELSE Utf8(Head(txt)) \o BufferWrite(Tail(txt), room - Len(Utf8(Head(txt))))

\* function textPayload(txt): Buffer.alloc(1 + txt.length) is zero filled,
\* payload[0] = txt.length keeps the low 8 bits
textPayload(txt) ==
    LET written == BufferWrite(txt, Len(txt))
    IN <<Len(txt) % 256>> \o written \o Rep(0, Len(txt) - Len(written))

\* const convertDecimal = (decimal: number | string): string
convertDecimal(decimal) ==
    LET decimalStr == ToStr(decimal) IN
    IF \E i \in 1..Len(decimalStr) : decimalStr[i] = 46 THEN decimalStr
    ELSE IF IsIntegerString(decimalStr) THEN decimalStr \o <<46, 48>>
    ELSE decimalStr

(***************************************************************************)
(* Parameter Validator.                                                    *)
(***************************************************************************)
NoError == [name |-> "none"]
TypeError(rule, key) == [name |-> "TypeError", rule |-> rule, key |-> key]

\* recipient.match(/[0-9A-Fa-f]{64}/g): the pattern is not anchored
MatchHex64(s) ==
    \E i \in 1..(Len(s) - 63) : \A j \in i..(i + 63) : IsHex(s[j])

\* let isNaN_ = (v) => v === undefined ? false : isNaN(v)
isNaN_(v) == IF v = Undefined THEN FALSE ELSE JsIsNaN(v)

BudgetText_Unstripped(p, k) ==
    IF Truthy(p[maxLengths[k][1]]) THEN ToStr(p[maxLengths[k][1]]) ELSE <<>>

\* the text whose length the budget loop measures for maxLengths[k]
BudgetText(p, k) ==
    LET key == maxLengths[k][1]
        value == IF key = "recipient" THEN Str(StripPrefix(p.recipient.s)) ELSE p[key]
    IN IF Truthy(value) THEN ToStr(value) ELSE <<>>

\* the loop body's test: recipient must have exactly its length, every other
\* key at most its length
BudgetBroken(p, k) ==
    IF maxLengths[k][1] = "recipient"
    THEN Len(BudgetText(p, k)) # maxLengths[k][2]
    ELSE Len(BudgetText(p, k)) > maxLengths[k][2]

\* private checkTransferTxParamsSanity(params): the error it throws, or
\* NoError when it returns
checkTransferTxParamsSanity(p) ==
    LET recipient == StripPrefix(p.recipient.s)
        namespace_ == IF p.namespace = Undefined THEN <<>> ELSE p.namespace.s
        module_ == IF p.module = Undefined THEN <<>> ELSE p.module.s
    IN IF ~MatchHex64(recipient) THEN TypeError("format", "recipient")
       ELSE IF namespace_ # <<>> /\ module_ = <<>> THEN TypeError("module", "namespace")
       ELSE IF isNaN_(p.amount) THEN TypeError("NaN", "amount")
       ELSE IF isNaN_(p.gasPrice) THEN TypeError("NaN", "gasPrice")
       ELSE IF isNaN_(p.gasLimit) THEN TypeError("NaN", "gasLimit")
       ELSE IF isNaN_(p.creationTime) THEN TypeError("NaN", "creationTime")
       ELSE IF isNaN_(p.ttl) THEN TypeError("NaN", "ttl")
       ELSE IF \E k \in 1..Len(maxLengths) : BudgetBroken(p, k)
            THEN LET k == CHOOSE k \in 1..Len(maxLengths) :
                              BudgetBroken(p, k) /\ \A j \in 1..(k - 1) : ~BudgetBroken(p, j)
                 IN TypeError("length", maxLengths[k][1])
       ELSE NoError

(***************************************************************************)
(* Payload Assembler (signTxInternal, up to prepareChunks).                *)
(***************************************************************************)
FieldOrder == <<"recipient", "recipient_chainId", "network", "amount", "namespace",
                "module", "gasPrice", "gasLimit", "creationTime", "chainId",
                "nonce", "ttl">>

\* the local constants of signTxInternal and the texts it passes to
\* textPayload; now is Math.floor(t.getTime() / 1000)
NormalizedFields(p, now) ==
    [recipient |-> StripPrefix(p.recipient.s),
     recipient_chainId |-> ToStr(p.recipient_chainId),
     network |-> p.network.s,
     amount |-> convertDecimal(p.amount),
     namespace |-> IF p.namespace = Undefined THEN <<>> ELSE p.namespace.s,
     module |-> IF p.module = Undefined THEN <<>> ELSE p.module.s,
     gasPrice |-> IF p.gasPrice = Undefined THEN <<49, 46, 48, 101, 45, 54>>
                  ELSE p.gasPrice.s,
     gasLimit |-> IF p.gasLimit = Undefined THEN <<50, 51, 48, 48>> ELSE p.gasLimit.s,
     creationTime |-> IF p.creationTime = Undefined THEN IntToStr(now)
                      ELSE ToStr(p.creationTime),
     chainId |-> ToStr(p.chainId),
     nonce |-> IF p.nonce = Undefined THEN <<>> ELSE p.nonce.s,
     ttl |-> IF p.ttl = Undefined THEN <<54, 48, 48>> ELSE p.ttl.s]

RECURSIVE ConcatFields(_, _)
ConcatFields(f, k) ==
    IF k > Len(FieldOrder) THEN <<>>
    ELSE textPayload(f[FieldOrder[k]]) \o ConcatFields(f, k + 1)

\* Buffer.concat([txTypeB, textPayload(recipient), ...])
AssemblePayload(f, type) == <<type>> \o ConcatFields(f, 1)

(***************************************************************************)
(* Command Document Builder.  The document is kept as the sequence of the  *)
(* pieces buildTransferJson concatenates: Lit(l) is a literal of the       *)
(* template, Val(e, text) the text the expression e contributed.           *)
(***************************************************************************)
Lit(l) == [lit |-> l]
Val(e, text) == [slot |-> e, text |-> text]

\* "(coin.<fn>" or "(" + namespace_ + "." + module_ + ".<fn>"
Invocation(namespace_, module_, fn) ==
    IF namespace_ = <<>> THEN <<Lit("(coin."), Lit(fn)>>
    ELSE <<Lit("("), Val("namespace_", namespace_), Lit("."),
           Val("module_", module_), Lit("."), Lit(fn)>>

\* ',"name":"coin.<cap>"},{"args":[],"name":"coin.GAS"}]}]' or the
\* namespace.module qualified form
Capability(namespace_, module_, cap) ==
    IF namespace_ = <<>>
    THEN <<Lit(",\"name\":\"coin."), Lit(cap),
           Lit("\"},{\"args\":[],\"name\":\"coin.GAS\"}]}]")>>
    ELSE <<Lit(",\"name\":\""), Val("namespace_", namespace_), Lit("."),
           Val("module_", module_), Lit("."), Lit(cap),
           Lit("\"},{\"args\":[],\"name\":\"coin.GAS\"}]}]")>>

\* private buildTransferJson(params, txType, pubkey, creationTime)
buildTransferJson(p, type, pubkey, ctime) ==
    LET recipient == StripPrefix(p.recipient.s)
        namespace_ == IF p.namespace = Undefined THEN <<>> ELSE p.namespace.s
        module_ == IF p.module = Undefined THEN <<>> ELSE p.module.s
        head == <<Lit("{\"networkId\":\""), Val("params.network", ToStr(p.network)),
                  Lit("\"")>>
        keyset == <<Lit(",\"payload\":{\"exec\":{\"data\":{"),
                    Lit("\"ks\":{\"pred\":\"keys-all\",\"keys\":[\""),
                    Val("recipient", recipient), Lit("\"]}"), Lit("},\"code\":\"")>>
        parties == <<Lit(" \\\"k:"), Val("pubkey", pubkey), Lit("\\\""),
                     Lit(" \\\"k:"), Val("recipient", recipient), Lit("\\\"")>>
        signers == <<Lit(",\"signers\":[{\"pubKey\":\""), Val("pubkey", pubkey), Lit("\""),
                     Lit(",\"clist\":[{\"args\":[\"k:"), Val("pubkey", pubkey),
                     Lit("\",\"k:"), Val("recipient", recipient), Lit("\","),
                     Val("params.amount", ToStr(p.amount))>>
        body ==
          IF type = 0 THEN
            <<Lit(",\"payload\":{\"exec\":{\"data\":{},\"code\":\"")>>
            \o Invocation(namespace_, module_, "transfer")
            \o parties
            \o <<Lit(" "), Val("params.amount", ToStr(p.amount)), Lit(")\"}}")>>
            \o signers \o <<Lit("]")>>
            \o Capability(namespace_, module_, "TRANSFER")
          ELSE IF type = 1 THEN
            keyset
            \o Invocation(namespace_, module_, "transfer-create")
            \o parties
            \o <<Lit(" (read-keyset \\\"ks\\\")")>>
            \o <<Lit(" "), Val("params.amount", ToStr(p.amount)), Lit(")\"}}")>>
            \o signers \o <<Lit("]")>>
            \o Capability(namespace_, module_, "TRANSFER")
          ELSE
            keyset
            \o Invocation(namespace_, module_, "transfer-crosschain")
            \o parties
            \o <<Lit(" (read-keyset \\\"ks\\\")")>>
            \o <<Lit(" \\\""), Val("params.recipient_chainId", ToStr(p.recipient_chainId)),
                 Lit("\\\"")>>
            \o <<Lit(" "), Val("params.amount", ToStr(p.amount)), Lit(")\"}}")>>
            \o signers
            \o <<Lit(",\""), Val("params.recipient_chainId", ToStr(p.recipient_chainId)),
                 Lit("\"]")>>
            \o Capability(namespace_, module_, "TRANSFER_XCHAIN")
        meta == <<Lit(",\"meta\":{\"creationTime\":"), Val("creationTime", ToStr(ctime)),
                  Lit(",\"ttl\":"), Val("params.ttl", ToStr(p.ttl)),
                  Lit(",\"gasLimit\":"), Val("params.gasLimit", ToStr(p.gasLimit)),
                  Lit(",\"chainId\":\""), Val("params.chainId", ToStr(p.chainId)), Lit("\""),
                  Lit(",\"gasPrice\":"), Val("params.gasPrice", ToStr(p.gasPrice)),
                  Lit(",\"sender\":\"k:"), Val("pubkey", pubkey),
                  Lit("\"},\"nonce\":\""), Val("params.nonce", ToStr(p.nonce)), Lit("\"}")>>
    IN head \o body \o meta

(***************************************************************************)
(* Collaborators: path serialization, chunking, the device's answers and   *)
(* error normalization (BaseApp of @zondax/ledger-js).                     *)
(***************************************************************************)
\* the caller's derivation paths m/44'/626'/a'/0/0, a in Accounts
Accounts == {0, 1}

\* serializePath: five little-endian 32-bit words, the first three hardened
serializePath(a) == <<44, 0, 0, 128,  114, 2, 0, 128,  a, 0, 0, 128,
                      0, 0, 0, 0,  0, 0, 0, 0>>

Min(a, b) == IF a < b THEN a ELSE b

\* prepareChunks(path, message): the serialized path, then the message in
\* slices of at most chunkSize bytes
prepareChunks(a, message) ==
    <<serializePath(a)>> \o
    [k \in 1..((Len(message) + chunkSize - 1) \div chunkSize) |->
        SubSeq(message, (k - 1) * chunkSize + 1, Min(k * chunkSize, Len(message)))]

\* processErrorResponse(e): e as a ResponseError; one that already is a
\* ResponseError is returned as it is
processErrorResponse(e) ==
    IF e.name = "ResponseError" THEN e ELSE [name |-> "ResponseError", cause |-> e]

\* the errors the device or the transport answers a request with
DeviceErrors == {[name |-> "TransportStatusError", code |-> 27014],
                 [name |-> "DisconnectedDevice", code |-> 0]}

\* answers to the last chunk: the signature bytes
Signatures == {Rep(171, 64), Rep(18, 64)}

\* answers to GET_ADDR: the public key bytes
PubKeys == {Rep(171, 32), Rep(18, 32)}

HexDigit(n) == IF n < 10 THEN 48 + n ELSE 87 + n

\* Buffer.toString("hex")
ToHex(b) == [i \in 1..(2 * Len(b)) |->
                IF i % 2 = 1 THEN HexDigit(b[(i + 1) \div 2] \div 16)
                ELSE HexDigit(b[i \div 2] % 16)]

\* values of Math.floor(new Date().getTime() / 1000)
Clock == {1700000000}

(***************************************************************************)
(* Decoding of signHash's argument.                                        *)
(***************************************************************************)
Buf(b) == [t |-> "buffer", b |-> b]

HexVal(c) == IF c \in 48..57 THEN c - 48
             ELSE IF c \in 65..70 THEN c - 55 ELSE c - 87

\* Buffer.from(s, "hex"): whole pairs of hex digits, up to the first pair
\* that is not one
HexDecode(s) ==
    LET pairs == Len(s) \div 2
        good(k) == IsHex(s[2 * k - 1]) /\ IsHex(s[2 * k])
        n == IF \A k \in 1..pairs : good(k) THEN pairs
             ELSE (CHOOSE k \in 1..pairs : ~good(k) /\ \A j \in 1..(k - 1) : good(j)) - 1
    IN [k \in 1..n |-> 16 * HexVal(s[2 * k - 1]) + HexVal(s[2 * k])]

B64Val(c) == IF c \in 65..90 THEN c - 65
             ELSE IF c \in 97..122 THEN c - 71
             ELSE IF c \in 48..57 THEN c + 4
             ELSE IF c \in {43, 45} THEN 62 ELSE 63

Pow2(r) == IF r = 0 THEN 1 ELSE IF r = 2 THEN 4 ELSE 16

\* Buffer.from(s, "base64") for s over the base64 alphabets and "=":
\* the characters before the first "=" carry six bits each
Base64Decode(s) ==
    LET n == IF FirstIdx(s, {61}) = 0 THEN Len(s) ELSE FirstIdx(s, {61}) - 1
        byte(j) == LET q == (8 * j) \div 6
                       r == (8 * j) % 6
                   IN ((B64Val(s[q + 1]) * 64 + B64Val(s[q + 2])) \div Pow2(4 - r)) % 256
    IN [k \in 1..((6 * n) \div 8) |-> byte(k - 1)]

\* const rawHash = typeof hash == "string" ? (hash.length == 64 ? hex : base64)
\*                                         : Buffer.from(hash)
rawHashOf(hash) ==
    IF hash.t = "string"
    THEN IF Len(hash.s) = 64 THEN HexDecode(hash.s) ELSE Base64Decode(hash.s)
    ELSE hash.b

(***************************************************************************)
(* Requests to the device.                                                 *)
(***************************************************************************)
\* this.signSendChunk(ins, chunkIdx, chunkNum, chunk)
signSendChunk(ins, chunkIdx, chunkNum, chunk) ==
    [ins |-> ins, chunkIdx |-> chunkIdx, chunkNum |-> chunkNum, chunk |-> chunk]

\* the call before the loop: signSendChunk(ins, 1, chunks.length, chunks[0])
FirstDispatch(ins, chs) == signSendChunk(ins, 1, Len(chs), chs[1])

LoopDispatch_ZeroBased(ins, chs, i) == signSendChunk(ins, i, Len(chs), chs[i + 1])

\* the call in the loop body, for the loop variable i = 1 .. chunks.length - 1:
\* signSendChunk(ins, 1 + i, chunks.length, chunks[i])
LoopDispatch(ins, chs, i) == signSendChunk(ins, 1 + i, Len(chs), chs[i + 1])

getAddressAndPubKey_Inverted(a, showAddrInDevice) ==
    [ins |-> INS.GET_ADDR,
     p1 |-> IF showAddrInDevice THEN "ONLY_RETRIEVE" ELSE "SHOW_ADDRESS_IN_DEVICE",
     p2 |-> 0, data |-> serializePath(a)]

\* getAddressAndPubKey(bip44Path, showAddrInDevice): the request it sends,
\* transport.send(CLA, INS.GET_ADDR, p1, 0, bip44PathBuffer)
getAddressAndPubKey(a, showAddrInDevice) ==
    [ins |-> INS.GET_ADDR,
     p1 |-> IF showAddrInDevice THEN "SHOW_ADDRESS_IN_DEVICE" ELSE "ONLY_RETRIEVE",
     p2 |-> 0, data |-> serializePath(a)]

InsOf(o) == CASE o = "sign" -> INS.SIGN
              [] o = "signHash" -> INS.SIGN_HASH
              [] OTHER -> INS.SIGN_TRANSFER_TX

TransferOps == {"signTransferTx", "signTransferCreateTx", "signTransferCrossChainTx"}

NoResult == [t |-> "undefined"]
NoParams == [t |-> "undefined"]
NoFields == [t |-> "undefined"]

(***************************************************************************)
(* The callers' inputs.                                                    *)
(***************************************************************************)
\* n hexadecimal digits, of both cases
HexStr(n) == [i \in 1..n |-> <<48, 57, 97, 102, 65, 70>>[(i % 6) + 1]]

\* texts of max - LenSlack .. max + LenSlack copies of the character c
Around(c, max) == {Rep(c, n) : n \in (max - LenSlack)..(max + LenSlack)}

Recipients ==
    {HexStr(n) : n \in (64 - LenSlack)..(64 + LenSlack)}
    \cup {<<107, 58>> \o HexStr(n) : n \in (64 - LenSlack)..(64 + LenSlack)}
    \cup {[HexStr(64) EXCEPT ![k] = 103] : k \in {1, 32, 64}}
    \cup {<<103>> \o HexStr(64), HexStr(64) \o <<103>>,
          <<107, 58, 107, 58>> \o HexStr(62), <<107, 58>>, <<>>}

\* the intent of the end-to-end scenario: every optional field absent
Minimal ==
    [recipient |-> Str(HexStr(64)), amount |-> Str(<<49, 48>>), chainId |-> Num(0),
     network |-> Str(<<116, 101, 115, 116, 110, 101, 116>>),
     namespace |-> Undefined, module |-> Undefined, gasPrice |-> Undefined,
     gasLimit |-> Undefined, creationTime |-> Undefined, ttl |-> Undefined,
     nonce |-> Undefined, recipient_chainId |-> Undefined]

\* an intent with every field given
Full ==
    [recipient |-> Str(<<107, 58>> \o HexStr(64)), amount |-> Str(<<53, 46, 50, 53>>),
     chainId |-> Num(1), network |-> Str(<<109, 97, 105, 110, 110, 101, 116, 48, 49>>),
     namespace |-> Str(<<102, 114, 101, 101>>), module |-> Str(<<99, 111, 105, 110>>),
     gasPrice |-> Str(<<49, 46, 48, 101, 45, 54>>), gasLimit |-> Str(<<50, 51, 48, 48>>),
     creationTime |-> Num(1700000000), ttl |-> Str(<<54, 48, 48>>),
     nonce |-> Str(<<110, 49>>), recipient_chainId |-> Num(2)]

\* an intent with every field at its budget: its payload needs two chunks
Long ==
    [recipient |-> Str(HexStr(64)), amount |-> Str(Rep(49, 30) \o <<46, 53>>),
     chainId |-> Num(19), network |-> Str(Rep(110, 20)),
     namespace |-> Str(Rep(110, 16)), module |-> Str(Rep(109, 32)),
     gasPrice |-> Str(Rep(49, 20)), gasLimit |-> Str(Rep(49, 10)),
     creationTime |-> Num(1700000000), ttl |-> Str(Rep(49, 20)),
     nonce |-> Str(Rep(110, 32)), recipient_chainId |-> Num(2)]

FieldValues ==
    [recipient |-> {Str(r) : r \in Recipients},
     amount |-> {Str(<<49, 48>>), Str(<<53>>), Str(<<53, 46, 50, 53>>), Num(5), Num(0),
                 Str(<<97, 98, 99>>), Str(<<49, 101, 51>>), Str(<<49, 101, 45, 54>>),
                 Str(<<>>), Str(Rep(49, 30) \o <<46, 53>>)}
                \cup {Str(t) : t \in Around(49, 32)},
     chainId |-> {Num(0), Num(1), Num(19), Num(100), Str(<<48>>)},
     network |-> {Str(<<116, 101, 115, 116, 110, 101, 116>>), Str(<<>>),
                  Str(<<116, 233, 115, 116>>), Str(<<8364, 49>>)}
                 \cup {Str(t) : t \in Around(110, 20)},
     namespace |-> {Undefined, Str(<<>>), Str(<<102, 114, 101, 101>>),
                    Str(<<102, 114, 233, 101>>)}
                   \cup {Str(t) : t \in Around(110, 16)},
     module |-> {Undefined, Str(<<>>), Str(<<99, 111, 105, 110>>)}
                \cup {Str(t) : t \in Around(109, 32)},
     gasPrice |-> {Undefined, Str(<<49, 46, 48, 101, 45, 54>>), Str(<<97, 98, 99>>)}
                  \cup {Str(t) : t \in Around(49, 20)},
     gasLimit |-> {Undefined, Str(<<50, 51, 48, 48>>), Str(<<120>>)}
                  \cup {Str(t) : t \in Around(49, 10)},
     creationTime |-> {Undefined, Num(1700000000), Num(0), Str(<<120>>)}
                      \cup {Str(t) : t \in Around(49, 12)},
     ttl |-> {Undefined, Str(<<54, 48, 48>>), Str(<<120>>)}
             \cup {Str(t) : t \in Around(49, 20)},
     nonce |-> {Undefined, Str(<<>>), Str(<<110, 49>>), Str(<<99, 97, 102, 233>>)}
               \cup {Str(t) : t \in Around(110, 32)},
     recipient_chainId |-> {Undefined, Num(0), Num(5), Num(100)}]

\* the intents tried: Minimal and Full with one field changed, and Long
Intents ==
    {Long} \cup
    {[b EXCEPT ![k] = v] : <<b, k, v>> \in
        UNION {{<<b, k, v>> : v \in FieldValues[k]} :
                  <<b, k>> \in {Minimal, Full} \X DOMAIN FieldValues}}

\* cross-chain intents carry the mandatory recipient chain id
CrossChainIntents ==
    {i \in Intents : i.recipient_chainId # Undefined}
    \cup {[i EXCEPT !.recipient_chainId = Num(2)] : i \in Intents}
    \cup {[Minimal EXCEPT !.chainId = c, !.recipient_chainId = r] :
             c \in FieldValues.chainId, r \in {Num(0), Num(1), Num(19)}}

Blobs == {[i \in 1..(k * chunkSize + d) |-> i % 256] :
             k \in 0..MaxBlobChunks, d \in {0, 10}}

\* 43 base64 characters: 32 bytes, with or without the padding "="
B64Str(n) == [i \in 1..n |-> <<65, 122, 48, 43, 47, 45, 95, 57>>[(i % 8) + 1]]

Hashes ==
    {Str(HexStr(64)), Str([HexStr(64) EXCEPT ![10] = 103]), Str(B64Str(64)),
     Str(B64Str(43)), Str(B64Str(43) \o <<61>>), Str(B64Str(40)), Str(<<>>)}
    \cup {Buf(b) : b \in Around(7, 32)}

(***************************************************************************)
(* The signing calls.  A call runs to its first await in one step: what it *)
(* validates, assembles and dispatches before suspending is one action.    *)
(***************************************************************************)
Init ==
    /\ pc = "idle" /\ op = "none" /\ path = 0
    /\ params = NoParams /\ params0 = NoParams
    /\ txType = 0 /\ fields = NoFields /\ creationTime = Undefined
    /\ payload = <<>> /\ chunks = <<>>
    /\ sent = <<>> /\ answered = 0 /\ failedAt = 0
    /\ signatureResponse = <<>>
    /\ addrSent = <<>> /\ addrFailed = FALSE
    /\ result = NoResult /\ error = NoError

\* a call that throws before it dispatches anything
Throw(e) ==
    /\ pc' = "failed" /\ error' = e
    /\ chunks' = <<>> /\ sent' = <<>>

\* prepareChunks, then the dispatch of the first chunk, up to its await
StartChunks(ins, a, blob) ==
    /\ chunks' = prepareChunks(a, blob)
    /\ sent' = <<FirstDispatch(ins, chunks')>>
    /\ pc' = "awaitChunk" /\ error' = NoError

\* async sign(path, blob)
sign ==
    \E a \in Accounts, blob \in Blobs :
        /\ pc = "idle"
        /\ op' = "sign" /\ path' = a /\ payload' = blob
        /\ StartChunks(INS.SIGN, a, blob)
        /\ UNCHANGED <<params, params0, txType, fields, creationTime, answered, failedAt,
                       signatureResponse, addrSent, addrFailed, result>>

\* async signHash(path, hash)
signHash ==
    \E a \in Accounts, hash \in Hashes :
        /\ pc = "idle"
        /\ op' = "signHash" /\ path' = a
        /\ LET rawHash == rawHashOf(hash) IN
           IF Len(rawHash) # 32
           THEN Throw(TypeError("not32bytes", "hash")) /\ payload' = <<>>
           ELSE StartChunks(INS.SIGN_HASH, a, rawHash) /\ payload' = rawHash
        /\ UNCHANGED <<params, params0, txType, fields, creationTime, answered, failedAt,
                       signatureResponse, addrSent, addrFailed, result>>

signTxInternal_ValidateLate(a, p, type, now) ==
    /\ txType' = type
    /\ fields' = NormalizedFields(p, now)
    /\ creationTime' = IF p.creationTime = Undefined THEN Num(now) ELSE p.creationTime
    /\ payload' = AssemblePayload(fields', type)
    /\ chunks' = prepareChunks(a, payload')
    /\ sent' = <<FirstDispatch(INS.SIGN_TRANSFER_TX, chunks')>>
    /\ IF checkTransferTxParamsSanity(p) # NoError
       THEN pc' = "failed" /\ error' = checkTransferTxParamsSanity(p)
       ELSE pc' = "awaitChunk" /\ error' = NoError

\* private async signTxInternal(path, params, txType), to its first await
signTxInternal(a, p, type, now) ==
    /\ txType' = type
    /\ IF checkTransferTxParamsSanity(p) # NoError
       THEN /\ Throw(checkTransferTxParamsSanity(p))
            /\ fields' = NoFields /\ creationTime' = Undefined /\ payload' = <<>>
       ELSE /\ fields' = NormalizedFields(p, now)
            /\ creationTime' = IF p.creationTime = Undefined THEN Num(now)
                               ELSE p.creationTime
            /\ payload' = AssemblePayload(fields', type)
            /\ StartChunks(INS.SIGN_TRANSFER_TX, a, payload')

\* async signTransferTx(path, params)
signTransferTx ==
    \E a \in Accounts, p \in Intents, now \in Clock :
        /\ pc = "idle"
        /\ op' = "signTransferTx" /\ path' = a /\ params0' = p
        /\ params' = [p EXCEPT !.recipient_chainId = Num(0)]
        /\ signTxInternal(a, params', TransferTxType.TRANSFER, now)
        /\ UNCHANGED <<answered, failedAt, signatureResponse, addrSent, addrFailed, result>>

\* async signTransferCreateTx(path, params)
signTransferCreateTx ==
    \E a \in Accounts, p \in Intents, now \in Clock :
        /\ pc = "idle"
        /\ op' = "signTransferCreateTx" /\ path' = a /\ params0' = p
        /\ params' = [p EXCEPT !.recipient_chainId = Num(0)]
        /\ signTxInternal(a, params', TransferTxType.TRANSFER_CREATE, now)
        /\ UNCHANGED <<answered, failedAt, signatureResponse, addrSent, addrFailed, result>>

\* the number a chain id converts to when == compares it with a number
ToNumber(v) == IF v.t = "number" THEN v.n ELSE StrToNat(v.s)

SameChain_Strict(p) == p.chainId = p.recipient_chainId

\* params.chainId == params.recipient_chainId: two strings are compared as
\* texts, a string and a number as numbers (chain ids are numbers or texts
\* of digits)
SameChain(p) ==
    IF p.chainId.t = "string" /\ p.recipient_chainId.t = "string"
    THEN p.chainId.s = p.recipient_chainId.s
    ELSE ToNumber(p.chainId) = ToNumber(p.recipient_chainId)

\* async signTransferCrossChainTx(path, params)
signTransferCrossChainTx ==
    \E a \in Accounts, p \in CrossChainIntents, now \in Clock :
        /\ pc = "idle"
        /\ op' = "signTransferCrossChainTx" /\ path' = a /\ params0' = p
        /\ params' = p
        /\ IF SameChain(p)
           THEN /\ Throw(TypeError("sameChain", "recipient_chainId"))
                /\ txType' = txType
                /\ fields' = NoFields /\ creationTime' = Undefined /\ payload' = <<>>
           ELSE signTxInternal(a, p, TransferTxType.TRANSFER_CROSS_CHAIN, now)
        /\ UNCHANGED <<answered, failedAt, signatureResponse, addrSent, addrFailed, result>>

(***************************************************************************)
(* The device's answers, and the continuation of the call after each.      *)
(***************************************************************************)
\* the continuation once every chunk is answered: sign and signHash return
\* the signature, a transfer asks for the public key
AfterLastChunk(resp) ==
    IF op \in TransferOps
    THEN /\ addrSent' = Append(addrSent, getAddressAndPubKey(path, FALSE))
         /\ pc' = "awaitAddr"
         /\ UNCHANGED <<sent, result>>
    ELSE /\ pc' = "done"
         /\ result' = [signature |-> resp]
         /\ UNCHANGED <<sent, addrSent>>

\* a chunk is answered without error: the loop dispatches the next one
ChunkResponseOk ==
    /\ pc = "awaitChunk"
    /\ \E resp \in (IF answered + 1 = Len(chunks) THEN Signatures ELSE {<<>>}) :
        /\ answered' = answered + 1
        /\ signatureResponse' = resp
        /\ IF answered' < Len(chunks)
           THEN /\ sent' = Append(sent, LoopDispatch(InsOf(op), chunks, answered'))
                /\ UNCHANGED <<pc, addrSent, result>>
           ELSE AfterLastChunk(resp)
    /\ UNCHANGED <<op, path, params, params0, txType, fields, creationTime, payload,
                   chunks, failedAt, addrFailed, error>>

ChunkFailure_Swallowed(e) ==
    /\ answered' = answered + 1
    /\ failedAt' = answered + 1
    /\ IF answered' < Len(chunks)
       THEN /\ sent' = Append(sent, LoopDispatch(InsOf(op), chunks, answered'))
            /\ UNCHANGED <<pc, result, error>>
       ELSE /\ pc' = "done" /\ result' = [signature |-> signatureResponse]
            /\ UNCHANGED <<sent, error>>

\* signSendChunk throws e: catch (e) { throw processErrorResponse(e) }
ChunkFailure(e) ==
    /\ answered' = answered + 1
    /\ failedAt' = answered + 1
    /\ pc' = "failed"
    /\ error' = processErrorResponse(e)
    /\ UNCHANGED <<sent, result>>

\* a chunk is answered with a device or transport error
ChunkResponseError ==
    /\ pc = "awaitChunk"
    /\ \E e \in DeviceErrors : ChunkFailure(e)
    /\ UNCHANGED <<op, path, params, params0, txType, fields, creationTime, payload,
                   chunks, signatureResponse, addrSent, addrFailed>>

\* the 256-bit digest of the document as URL-safe base64 without padding
\* (blake2b is not interpreted)
Digest(json) == [blake2b256Base64Url |-> json]

\* GET_ADDR is answered: the document is built and the call returns
AddrResponseOk ==
    /\ pc = "awaitAddr"
    /\ \E pubkey \in PubKeys :
        LET json == buildTransferJson(params, txType, ToHex(pubkey), creationTime) IN
        result' = [signature |-> signatureResponse, cmd |-> json, hash |-> Digest(json)]
    /\ pc' = "done"
    /\ UNCHANGED <<op, path, params, params0, txType, fields, creationTime, payload,
                   chunks, sent, answered, failedAt, signatureResponse, addrSent,
                   addrFailed, error>>

\* GET_ADDR fails: getAddressAndPubKey throws processErrorResponse(e), and
\* signTxInternal's catch normalizes that again
AddrResponseError ==
    /\ pc = "awaitAddr"
    /\ \E e \in DeviceErrors : error' = processErrorResponse(processErrorResponse(e))
    /\ addrFailed' = TRUE
    /\ pc' = "failed"
    /\ UNCHANGED <<op, path, params, params0, txType, fields, creationTime, payload,
                   chunks, sent, answered, failedAt, signatureResponse, addrSent, result>>

\* the caller has the result or the error; the next call starts afresh
Finish ==
    /\ pc \in {"done", "failed"}
    /\ pc' = "idle" /\ op' = "none" /\ path' = 0
    /\ params' = NoParams /\ params0' = NoParams
    /\ txType' = 0 /\ fields' = NoFields /\ creationTime' = Undefined
    /\ payload' = <<>> /\ chunks' = <<>>
    /\ sent' = <<>> /\ answered' = 0 /\ failedAt' = 0
    /\ signatureResponse' = <<>>
    /\ addrSent' = <<>> /\ addrFailed' = FALSE
    /\ result' = NoResult /\ error' = NoError

Next ==
    \/ sign
    \/ signHash
    \/ signTransferTx
    \/ signTransferCreateTx
    \/ signTransferCrossChainTx
    \/ ChunkResponseOk
    \/ ChunkResponseError
    \/ AddrResponseOk
    \/ AddrResponseError
    \/ Finish

Spec == Init /\ [][Next]_vars

(***************************************************************************)
(* Properties.                                                             *)
(***************************************************************************)
SigningOps == {"sign", "signHash"} \cup TransferOps

\* the call got past validation: signTxInternal computed its locals
Accepted == op \in TransferOps /\ fields # NoFields

\* the units a reader of the payload finds after the type tag: a length
\* byte, then that many bytes
RECURSIVE ParseUnits(_)
ParseUnits(buf) ==
    IF buf = <<>> THEN <<>>
    ELSE <<SubSeq(buf, 2, 1 + buf[1])>> \o ParseUnits(SubSeq(buf, 2 + buf[1], Len(buf)))

\* C1: in every signing operation the dispatches made so far are exactly
\* the chunks 1, 2, ..., k of the chunk list (k <= N), in that order:
\* dispatch i has index i, carries chunk i and the total N and the
\* operation's instruction code, and dispatch i + 1 is made only once
\* dispatch i has been answered.
C1_ChunkSequence ==
    op \in SigningOps =>
        /\ Len(sent) <= Len(chunks)
        /\ \A i \in 1..Len(sent) :
              /\ sent[i].chunkIdx = i
              /\ sent[i].chunkNum = Len(chunks)
              /\ sent[i].chunk = chunks[i]
              /\ sent[i].ins = InsOf(op)
        /\ answered <= Len(sent)
        /\ Len(sent) <= answered + 1

\* C1's case: a transfer whose payload needed two chunks after the path
\* chunk, all three dispatched and answered
C1_Witness ==
    /\ op \in TransferOps /\ Len(chunks) = 3
    /\ Len(sent) = 3 /\ answered = 3 /\ failedAt = 0

\* C2: once the dispatch of chunk i has failed, the call has failed with
\* the normalized error, chunk i is the last dispatch there is (nothing
\* after it, not sent twice), no GET_ADDR was sent and nothing is returned;
\* and whatever is returned, is returned with all N chunks dispatched and
\* answered without error.
C2_AbortOnChunkError ==
    /\ failedAt > 0 =>
          /\ pc = "failed"
          /\ Len(sent) = failedAt
          /\ \A i \in 1..Len(sent) : sent[i].chunkIdx = i
          /\ addrSent = <<>>
          /\ result = NoResult
          /\ error.name = "ResponseError" /\ error.cause \in DeviceErrors
    /\ result # NoResult =>
          /\ failedAt = 0
          /\ Len(sent) = Len(chunks) /\ answered = Len(chunks)
          /\ Len(chunks) >= 1

\* C2's case: the second of three chunks failed, the third was never sent
C2_Witness ==
    /\ failedAt = 2 /\ Len(chunks) = 3 /\ Len(sent) = 2 /\ pc = "failed"

\* C3: a call that failed with a validation or precondition error (every
\* TypeError: a validator rule, the cross-chain same-chain rule, signHash's
\* 32 bytes) has sent no packet to the device.
C3_FailFast ==
    (pc = "failed" /\ error.name = "TypeError") =>
        /\ sent = <<>>
        /\ addrSent = <<>>
        /\ answered = 0

\* C3's case: a transfer rejected by the validator
C3_Witness ==
    /\ pc = "failed" /\ op = "signTransferTx"
    /\ error = TypeError("NaN", "amount")

\* C4: in the returned command document the values emitted for amount, ttl,
\* gasLimit, gasPrice, chainId and nonce are the normalized values, those
\* encoded into the payload.
C4_DocumentUsesNormalized ==
    (op \in TransferOps /\ pc = "done") =>
        LET emitted(e) == {result.cmd[i].text :
                              i \in {j \in 1..Len(result.cmd) :
                                        /\ "slot" \in DOMAIN result.cmd[j]
                                        /\ result.cmd[j].slot = e}}
        IN /\ emitted("params.amount") = {fields.amount}
           /\ emitted("params.ttl") = {fields.ttl}
           /\ emitted("params.gasLimit") = {fields.gasLimit}
           /\ emitted("params.gasPrice") = {fields.gasPrice}
           /\ emitted("params.chainId") = {fields.chainId}
           /\ emitted("params.nonce") = {fields.nonce}

\* exactly 64 hexadecimal characters after one leading "k:" is removed
WellFormedRecipient(r) ==
    LET stripped == IF Len(r) >= 2 /\ SubSeq(r, 1, 2) = <<107, 58>>
                    THEN SubSeq(r, 3, Len(r)) ELSE r
    IN Len(stripped) = 64 /\ \A i \in 1..Len(stripped) : IsHex(stripped[i])

\* C5: a transfer call gets past validation only with a recipient that is
\* exactly 64 hexadecimal characters after one leading "k:" is removed; any
\* other recipient makes the call fail with a validation error before
\* anything is sent; and such a recipient is never what validation rejects.
C5_RecipientValidation ==
    op \in TransferOps =>
        /\ Accepted => WellFormedRecipient(params0.recipient.s)
        /\ ~WellFormedRecipient(params0.recipient.s) =>
              pc = "failed" /\ error.name = "TypeError" /\ sent = <<>>
        /\ WellFormedRecipient(params0.recipient.s) =>
              ~(error.name = "TypeError" /\ error.key = "recipient")

\* C5's case: a "k:" address of 64 hexadecimal characters was accepted
C5_Witness ==
    /\ Accepted
    /\ Len(params0.recipient.s) = 66
    /\ WellFormedRecipient(params0.recipient.s)

\* the number a chain id stands for
ChainIdValue(v) == IF v.t = "number" THEN v.n ELSE StrToNat(v.s)

\* C6: a cross-chain call whose recipient chain id equals its sender chain
\* id by value has failed with the same-chain error with nothing encoded and
\* nothing sent; a plain or with-create call never fails with that error,
\* and when accepted its payload has the text "0" in the recipient-chain-id
\* position (the second unit).
C6_SameChainRule ==
    /\ (/\ op = "signTransferCrossChainTx"
        /\ ChainIdValue(params0.chainId) = ChainIdValue(params0.recipient_chainId)) =>
          /\ pc = "failed"
          /\ error = TypeError("sameChain", "recipient_chainId")
          /\ fields = NoFields /\ payload = <<>> /\ chunks = <<>> /\ sent = <<>>
    /\ op \in {"signTransferTx", "signTransferCreateTx"} =>
          /\ error # TypeError("sameChain", "recipient_chainId")
          /\ Accepted => ParseUnits(Tail(payload))[2] = <<48>>

\* C6's case: chainId "0" (a text) and recipient_chainId 0 (a number)
C6_Witness ==
    /\ op = "signTransferCrossChainTx" /\ pc = "failed"
    /\ params0.chainId = Str(<<48>>) /\ params0.recipient_chainId = Num(0)

\* C7: during and after a transfer-signing call the caller's intent record
\* is as it was when the call was made.
C7_IntentUnchanged ==
    op \in TransferOps => params = params0

\* the Field Encoder's contract: the byte length, then all the bytes
RECURSIVE Utf8Bytes(_)
Utf8Bytes(txt) == IF txt = <<>> THEN <<>> ELSE Utf8(Head(txt)) \o Utf8Bytes(Tail(txt))

EncodedUnit(txt) == <<Len(Utf8Bytes(txt))>> \o Utf8Bytes(txt)

\* C8: the payload of an accepted intent is the type tag followed by the
\* twelve fields in the fixed order, each as one length byte holding the
\* number of bytes of its text and then all of those bytes.
C8_PayloadLayout ==
    Accepted =>
        /\ txType \in {0, 1, 2}
        /\ payload = <<txType>>
              \o EncodedUnit(fields.recipient) \o EncodedUnit(fields.recipient_chainId)
              \o EncodedUnit(fields.network) \o EncodedUnit(fields.amount)
              \o EncodedUnit(fields.namespace) \o EncodedUnit(fields.module)
              \o EncodedUnit(fields.gasPrice) \o EncodedUnit(fields.gasLimit)
              \o EncodedUnit(fields.creationTime) \o EncodedUnit(fields.chainId)
              \o EncodedUnit(fields.nonce) \o EncodedUnit(fields.ttl)

\* C9: every field of an accepted intent, as encoded into the payload, is
\* within its budget in maxLengths (the recipient has exactly 64 characters).
C9_FieldsWithinBudget ==
    Accepted =>
        \A k \in 1..Len(maxLengths) :
            IF maxLengths[k][1] = "recipient"
            THEN Len(fields[maxLengths[k][1]]) = maxLengths[k][2]
            ELSE Len(fields[maxLengths[k][1]]) <= maxLengths[k][2]

\* C10: the GET_ADDR request of a transfer call is sent at most once, with
\* the retrieve-only parameter, only when every chunk has been dispatched
\* and answered without error, and then it is sent; a call that returned
\* has sent it; and when it fails the call fails with the normalized error
\* and returns nothing, though the device's signature had arrived.
C10_PublicKeyRequest ==
    /\ Len(addrSent) <= 1
    /\ addrSent # <<>> =>
          /\ op \in TransferOps /\ Accepted
          /\ failedAt = 0
          /\ Len(sent) = Len(chunks) /\ answered = Len(chunks)
          /\ addrSent[1].ins = INS.GET_ADDR
          /\ addrSent[1].p1 = "ONLY_RETRIEVE"
          /\ addrSent[1].data = serializePath(path)
    /\ (op \in TransferOps /\ Accepted /\ failedAt = 0 /\ answered = Len(chunks)) =>
          Len(addrSent) = 1
    /\ (op \in TransferOps /\ pc = "done") => Len(addrSent) = 1
    /\ addrFailed =>
          /\ pc = "failed"
          /\ result = NoResult
          /\ error.name = "ResponseError" /\ error.cause \in DeviceErrors
          /\ signatureResponse \in Signatures

\* C10's case: the chunks were answered, the GET_ADDR request failed
C10_Witness ==
    /\ addrFailed /\ Len(addrSent) = 1 /\ signatureResponse \in Signatures

====
